---- MODULE Spec2Model ----
(***************************************************************************)
(* Model of src/commands/key_value.rs: the five key value store commands   *)
(* (create, delete, list, set, rename).  Each invocation is a short        *)
(* sequence of remote client calls; the await points of the async run      *)
(* functions (the client calls and the interactive prompt) separate the    *)
(* atomic steps of the model.                                              *)
(***************************************************************************)
EXTENDS Naturals, Sequences, FiniteSets

(***************************************************************************)
(* Bounds of the model.                                                    *)
(***************************************************************************)
MaxStores == 2
MaxLinks == 1
MaxPairs == 2

(***************************************************************************)
(* Value universes.                                                        *)
(***************************************************************************)
Names == {"kv1", "kv2"}
Procs == {1, 2}

\* Option<T>: None is the empty sequence, Some(x) the one-element sequence.
None == <<>>
Some(x) == <<x>>
IsSome(o) == o # <<>>
Unwrap(o) == o[1]

SeqsUpTo(S, n) == UNION {[1..k -> S] : k \in 0..n}

\* cloud_openapi::models::ResourceLabel: a link of a store to an app.
AppLink ==
    {[app_name |-> "app1", label |-> "l1"],
     [app_name |-> "app2", label |-> "l1"],
     [app_name |-> "app1", label |-> "l2"]}

\* cloud_openapi::models::KeyValueStoreItem { name, links }.
KeyValueStoreItem == [name : Names, links : SeqsUpTo(AppLink, MaxLinks)]

\* The lists a get_key_value_stores call can answer with.
StoreLists == SeqsUpTo(KeyValueStoreItem, MaxStores)

\* The (key, value) pairs parse_kv yields from the key=value arguments.
Pairs == {<<"key", "value">>, <<"k2", "v2">>}

(***************************************************************************)
(* The commands (the clap structs) and their arguments.                    *)
(***************************************************************************)
CreateCommand == [kind : {"create"}, name : Names]

DeleteCommand == [kind : {"delete"}, name : Names, yes : BOOLEAN]

GroupBy == {"App", "Store"}

ListFormat == {"Table", "Json"}

ListCommand ==
    [kind : {"list"},
     app : {None, Some("app1")},
     store : {None, Some("kv1")},
     group_by : {None} \cup {Some(g) : g \in GroupBy},
     format : ListFormat]

SetCommand ==
    [kind : {"set"},
     store : {None, Some(""), Some("kv1")},
     label : {None, Some(""), Some("l1")},
     app : {None, Some(""), Some("app1")},
     key_values : SeqsUpTo(Pairs, MaxPairs)]

RenameCommand == [kind : {"rename"}, name : Names, new_name : Names]

KeyValueCommand ==
    CreateCommand \cup DeleteCommand \cup ListCommand \cup SetCommand
        \cup RenameCommand

NoCommand == [kind |-> "none"]

(***************************************************************************)
(* Errors (anyhow::Error): the root cause and the contexts wrapped around  *)
(* it, innermost first.  A message is the sequence of the fragments that   *)
(* format! joins.                                                          *)
(***************************************************************************)
NoError == [kind |-> "none", text |-> <<>>, context |-> <<>>]

\* bail!(..) and Option::with_context(..): an ad-hoc error that is its message.
Msg(text) == [kind |-> "msg", text |-> text, context |-> <<>>]

\* The failure of a remote client call.
RemoteError == [kind |-> "remote", text |-> <<"remote failure">>, context |-> <<>>]

\* The failure of the interactive prompt (an I/O error of the terminal).
PromptError == [kind |-> "prompt", text |-> <<"prompt failure">>, context |-> <<>>]

\* Result::with_context: wraps the error in one more context message.
WithContext(e, text) == [e EXCEPT !.context = Append(@, text)]

\* Error::to_string(): the outermost message.
ErrToString(e) ==
    IF e.context # <<>> THEN e.context[Len(e.context)] ELSE e.text

(***************************************************************************)
(* State.  Every variable is per invocation.                               *)
(***************************************************************************)
VARIABLES
    cmd,      \* the command struct the invocation runs
    pc,       \* where the invocation's run function stands
    list,     \* the list the fetch returned (the local `list` / `stores`)
    calls,    \* the remote client calls issued so far, in order
    prompts,  \* the confirmation prompts presented so far
    out,      \* the lines printed to stdout so far
    rendered, \* the calls to print_json / print_table so far
    store,    \* set: the name of the resolved store
    next,     \* set: the index of the next pair of key_values
    status,   \* "running", "ok" (run returned Ok(())) or "err"
    err,      \* the error run returned
    remote    \* the remote service the invocations share, where it is modelled

vars ==
    <<cmd, pc, list, calls, prompts, out, rendered, store, next, status, err,
      remote>>

(***************************************************************************)
(* Records of what an invocation did.                                      *)
(***************************************************************************)
\* One call of a CloudClientInterface method: `opt` is its Option argument
\* (None when it has none), `args` its string arguments in order, `ok` whether
\* it answered Ok.
Call(op, opt, args, ok) == [op |-> op, opt |-> opt, args |-> args, ok |-> ok]

GetStoresCall(ok) == Call("get_key_value_stores", None, <<>>, ok)

\* ResourceType::KeyValueStore, as it is displayed.
KeyValueStoreType == "key value store"

\* ResourceLinks::new(name, links).
ResourceLinksNew(name, links) == [name |-> name, links |-> links]

\* impl From<GroupBy> for ResourceGroupBy.
FromGroupBy(g) ==
    IF g = "App" THEN <<"App">> ELSE <<"Resource", KeyValueStoreType>>

\* Mutant of AnyNamed: only the first store of the list is looked at.
AnyNamedFirstOnly(l, name) == l # <<>> /\ l[1].name = name

\* list.iter().any(|kv| kv.name == name).
AnyNamed(l, name) == \E i \in 1..Len(l) : l[i].name = name

\* list.iter().find(|kv| kv.name == name): the first item of that name.
FindNamed(l, name) ==
    IF AnyNamed(l, name)
    THEN LET i == CHOOSE j \in 1..Len(l) :
                    /\ l[j].name = name
                    /\ \A k \in 1..(j - 1) : l[k].name # name
         IN Some(l[i])
    ELSE None

(***************************************************************************)
(* The ways a step ends.                                                   *)
(***************************************************************************)
Goto(p, at) ==
    /\ pc' = [pc EXCEPT ![p] = at]
    /\ UNCHANGED <<status, err>>

\* run returns Err(e).
Fail(p, e) ==
    /\ pc' = [pc EXCEPT ![p] = "done"]
    /\ status' = [status EXCEPT ![p] = "err"]
    /\ err' = [err EXCEPT ![p] = e]

\* run returns Ok(()).
Succeed(p) ==
    /\ pc' = [pc EXCEPT ![p] = "done"]
    /\ status' = [status EXCEPT ![p] = "ok"]
    /\ UNCHANGED err

Issue(p, c) == calls' = [calls EXCEPT ![p] = Append(@, c)]

Println(p, line) == out' = [out EXCEPT ![p] = Append(@, line)]

(***************************************************************************)
(* CreateCommand::run.                                                     *)
(***************************************************************************)
CreateListContext(name) == <<"Error listing key value stores '", name, "'">>

AlreadyExistsText(name) == <<"Key value store \"", name, "\" already exists">>

CreateContext(name) == <<"Error creating key value store '", name, "'">>

CreatedLine(name) == <<"Key value store \"", name, "\" created">>

\* The fetch and the existence check that follows it without suspension.
CreateFetch(p) ==
    /\ pc[p] = "start"
    /\ cmd[p].kind = "create"
    /\ \/ /\ Issue(p, GetStoresCall(FALSE))
          /\ Fail(p, WithContext(RemoteError, CreateListContext(cmd[p].name)))
          /\ UNCHANGED list
       \/ \E l \in StoreLists :
            /\ Issue(p, GetStoresCall(TRUE))
            /\ list' = [list EXCEPT ![p] = l]
            /\ IF AnyNamed(l, cmd[p].name)
               THEN Fail(p, Msg(AlreadyExistsText(cmd[p].name)))
               ELSE Goto(p, "create")
    /\ UNCHANGED <<cmd, prompts, out, rendered, store, next>>

\* Mutant of CreateStoreCall: the name is also passed as the metadata.
CreateStoreCallWithMetadata(name, ok) ==
    Call("create_key_value_store", Some(name), <<name>>, ok)

CreateStoreCall(name, ok) ==
    Call("create_key_value_store", None, <<name>>, ok)

\* client.create_key_value_store(&self.name, None) and the report.
CreateCall(p) ==
    /\ pc[p] = "create"
    /\ \E ok \in BOOLEAN :
         /\ Issue(p, CreateStoreCall(cmd[p].name, ok))
         /\ IF ok
            THEN /\ Println(p, CreatedLine(cmd[p].name))
                 /\ Succeed(p)
            ELSE /\ Fail(p, WithContext(RemoteError, CreateContext(cmd[p].name)))
                 /\ UNCHANGED out
    /\ UNCHANGED <<cmd, list, prompts, rendered, store, next>>

(***************************************************************************)
(* DeleteCommand::run.                                                     *)
(***************************************************************************)
DeleteListContext(name) == <<"Error listing key value stores '", name, "'">>

NotFoundText(name) == <<"No key value store found with name \"", name, "\"">>

DeleteContext(name) == <<"Problem deleting key value store '", name, "'">>

DeletedLine(name) == <<"Key value store \"", name, "\" deleted">>

\* Mutant of DeleteFetch: the yes flag is tested before the store is looked
\* up, so that --yes deletes without the existence check.
DeleteFetchYesFirst(p) ==
    /\ pc[p] = "start"
    /\ cmd[p].kind = "delete"
    /\ \/ /\ Issue(p, GetStoresCall(FALSE))
          /\ Fail(p, WithContext(RemoteError, DeleteListContext(cmd[p].name)))
          /\ UNCHANGED list
       \/ \E l \in StoreLists :
            /\ Issue(p, GetStoresCall(TRUE))
            /\ list' = [list EXCEPT ![p] = l]
            /\ IF cmd[p].yes
               THEN Goto(p, "delete")
               ELSE IF FindNamed(l, cmd[p].name) = None
                    THEN Fail(p, Msg(NotFoundText(cmd[p].name)))
                    ELSE Goto(p, "prompt")
    /\ UNCHANGED <<cmd, prompts, out, rendered, store, next>>

\* Mutant of DeleteFetch: the yes flag is not consulted, the prompt is always
\* presented.
DeleteFetchAlwaysPrompts(p) ==
    /\ pc[p] = "start"
    /\ cmd[p].kind = "delete"
    /\ \/ /\ Issue(p, GetStoresCall(FALSE))
          /\ Fail(p, WithContext(RemoteError, DeleteListContext(cmd[p].name)))
          /\ UNCHANGED list
       \/ \E l \in StoreLists :
            /\ Issue(p, GetStoresCall(TRUE))
            /\ list' = [list EXCEPT ![p] = l]
            /\ IF FindNamed(l, cmd[p].name) = None
               THEN Fail(p, Msg(NotFoundText(cmd[p].name)))
               ELSE Goto(p, "prompt")
    /\ UNCHANGED <<cmd, prompts, out, rendered, store, next>>

\* The fetch, the lookup of the store and the test of the yes flag, which
\* short-circuits the prompt.
DeleteFetch(p) ==
    /\ pc[p] = "start"
    /\ cmd[p].kind = "delete"
    /\ \/ /\ Issue(p, GetStoresCall(FALSE))
          /\ Fail(p, WithContext(RemoteError, DeleteListContext(cmd[p].name)))
          /\ UNCHANGED list
       \/ \E l \in StoreLists :
            /\ Issue(p, GetStoresCall(TRUE))
            /\ list' = [list EXCEPT ![p] = l]
            /\ IF FindNamed(l, cmd[p].name) = None
               THEN Fail(p, Msg(NotFoundText(cmd[p].name)))
               ELSE IF cmd[p].yes
                    THEN Goto(p, "delete")
                    ELSE Goto(p, "prompt")
    /\ UNCHANGED <<cmd, prompts, out, rendered, store, next>>

\* One call of prompt_delete_resource(name, links, resource_type).
Prompt(name, links, answer) ==
    [name |-> name, links |-> links, resource_type |-> KeyValueStoreType,
     answer |-> answer]

\* Mutant of DeletePrompt: a declined prompt is reported as an error.
DeletePromptDeclineFails(p) ==
    /\ pc[p] = "prompt"
    /\ LET kv == Unwrap(FindNamed(list[p], cmd[p].name))
       IN \E answer \in {"yes", "no", "error"} :
            /\ prompts' = [prompts EXCEPT
                              ![p] = Append(@, Prompt(cmd[p].name, kv.links, answer))]
            /\ CASE answer = "yes" -> Goto(p, "delete")
                 [] answer = "no" -> Fail(p, Msg(<<"Deletion cancelled">>))
                 [] OTHER -> Fail(p, PromptError)
    /\ UNCHANGED <<cmd, list, calls, out, rendered, store, next>>

\* prompt_delete_resource(&self.name, &kv.links, ..)?: the user affirms,
\* declines, or the prompt itself fails.
DeletePrompt(p) ==
    /\ pc[p] = "prompt"
    /\ LET kv == Unwrap(FindNamed(list[p], cmd[p].name))
       IN \E answer \in {"yes", "no", "error"} :
            /\ prompts' = [prompts EXCEPT
                              ![p] = Append(@, Prompt(cmd[p].name, kv.links, answer))]
            /\ CASE answer = "yes" -> Goto(p, "delete")
                 [] answer = "no" -> Succeed(p)
                 [] OTHER -> Fail(p, PromptError)
    /\ UNCHANGED <<cmd, list, calls, out, rendered, store, next>>

DeleteStoreCall(name, ok) ==
    Call("delete_key_value_store", None, <<name>>, ok)

\* client.delete_key_value_store(&self.name) and the report.
DeleteCall(p) ==
    /\ pc[p] = "delete"
    /\ \E ok \in BOOLEAN :
         /\ Issue(p, DeleteStoreCall(cmd[p].name, ok))
         /\ IF ok
            THEN /\ Println(p, DeletedLine(cmd[p].name))
                 /\ Succeed(p)
            ELSE /\ Fail(p, WithContext(RemoteError, DeleteContext(cmd[p].name)))
                 /\ UNCHANGED out
    /\ UNCHANGED <<cmd, list, prompts, rendered, store, next>>

(***************************************************************************)
(* ListCommand::run.                                                       *)
(***************************************************************************)
GroupingWithJsonText == <<"Grouping is not supported with JSON format output">>

ListContext == <<"Error listing key value stores">>

NoStoresLine == <<"No key value stores found">>

\* Mutant of JsonWithGrouping: only the grouping by store is matched.
JsonWithStoreGrouping(c) == c.format = "Json" /\ c.group_by = Some("Store")

\* if let (ListFormat::Json, Some(_)) = (&self.format, self.group_by).
JsonWithGrouping(c) == c.format = "Json" /\ IsSome(c.group_by)

\* The bail! that precedes every client call.
ListReject(p) ==
    /\ pc[p] = "start"
    /\ cmd[p].kind = "list"
    /\ JsonWithGrouping(cmd[p])
    /\ Fail(p, Msg(GroupingWithJsonText))
    /\ UNCHANGED <<cmd, list, calls, prompts, out, rendered, store, next>>

\* One call of print_json(resource_links, app, resource_type) or of
\* print_table(resource_links, app, group_by, resource_type).
PrintJson(resource_links, app) ==
    [renderer |-> "print_json", resource_links |-> resource_links, app |-> app,
     group_by |-> None, resource_type |-> KeyValueStoreType]

PrintTable(resource_links, app, group_by) ==
    [renderer |-> "print_table", resource_links |-> resource_links, app |-> app,
     group_by |-> group_by, resource_type |-> KeyValueStoreType]

\* self.group_by.map(Into::into).
MapGroupBy(g) == IF IsSome(g) THEN Some(FromGroupBy(Unwrap(g))) ELSE None

\* key_value_stores.into_iter().map(|kv| ResourceLinks::new(kv.name, kv.links)).
ListResourceLinks(stores) ==
    [i \in 1..Len(stores) |-> ResourceLinksNew(stores[i].name, stores[i].links)]

\* match self.format { Json => print_json(..), Table => print_table(..) }.
Render(c, resource_links) ==
    IF c.format = "Json"
    THEN PrintJson(resource_links, c.app)
    ELSE PrintTable(resource_links, c.app, MapGroupBy(c.group_by))

\* The failure print_json / print_table may return.
RenderError == [kind |-> "render", text |-> <<"render failure">>, context |-> <<>>]

\* Mutant of ListFetch: the empty list is rendered like any other.
ListFetchRendersEmpty(p) ==
    /\ pc[p] = "start"
    /\ cmd[p].kind = "list"
    /\ ~JsonWithGrouping(cmd[p])
    /\ \/ /\ Issue(p, GetStoresCall(FALSE))
          /\ Fail(p, WithContext(RemoteError, ListContext))
          /\ UNCHANGED <<list, out, rendered>>
       \/ \E l \in StoreLists :
            /\ Issue(p, GetStoresCall(TRUE))
            /\ list' = [list EXCEPT ![p] = l]
            /\ rendered' = [rendered EXCEPT
                               ![p] = Append(@, Render(cmd[p], ListResourceLinks(l)))]
            /\ UNCHANGED out
            /\ \/ Succeed(p)
               \/ Fail(p, RenderError)
    /\ UNCHANGED <<cmd, prompts, store, next>>

\* The fetch and, without suspension, the rendering of what it returned.
ListFetch(p) ==
    /\ pc[p] = "start"
    /\ cmd[p].kind = "list"
    /\ ~JsonWithGrouping(cmd[p])
    /\ \/ /\ Issue(p, GetStoresCall(FALSE))
          /\ Fail(p, WithContext(RemoteError, ListContext))
          /\ UNCHANGED <<list, out, rendered>>
       \/ \E l \in StoreLists :
            /\ Issue(p, GetStoresCall(TRUE))
            /\ list' = [list EXCEPT ![p] = l]
            /\ IF l = <<>>
               THEN /\ Println(p, NoStoresLine)
                    /\ Succeed(p)
                    /\ UNCHANGED rendered
               ELSE /\ rendered' = [rendered EXCEPT
                                       ![p] = Append(@, Render(cmd[p], ListResourceLinks(l)))]
                    /\ UNCHANGED out
                    /\ \/ Succeed(p)
                       \/ Fail(p, RenderError)
    /\ UNCHANGED <<cmd, prompts, store, next>>

(***************************************************************************)
(* ResourceTarget (commands/links_target.rs), as specified: the selector   *)
(* of the one store a command acts on.                                     *)
(***************************************************************************)
Ok(v) == [ok |-> TRUE, value |-> v]

Err(e) == [ok |-> FALSE, error |-> e]

ByName(name) == [by |-> "name", name |-> name]

ByLabel(label, app) == [by |-> "label", label |-> label, app |-> app]

ConfigurationError ==
    [kind |-> "ConfigurationError",
     text |-> <<"exactly one of --store or --label with --app is required">>,
     context |-> <<>>]

\* ResourceTarget::from_inputs(store, label, app).
FromInputs(s, l, a) ==
    IF IsSome(s) /\ l = None /\ a = None /\ Unwrap(s) # ""
    THEN Ok(ByName(Unwrap(s)))
    ELSE IF s = None /\ IsSome(l) /\ IsSome(a) /\ Unwrap(l) # "" /\ Unwrap(a) # ""
         THEN Ok(ByLabel(Unwrap(l), Unwrap(a)))
         ELSE Err(ConfigurationError)

\* Whether a resource has a link of that label for that app.
HasLink(r, label, app) ==
    \E k \in 1..Len(r.links) :
        r.links[k].app_name = app /\ r.links[k].label = label

\* The positions of the resources the target selects.
Matching(target, resources) ==
    IF target.by = "name"
    THEN {i \in 1..Len(resources) : resources[i].name = target.name}
    ELSE {i \in 1..Len(resources) : HasLink(resources[i], target.label, target.app)}

First(S) == CHOOSE i \in S : \A j \in S : i <= j

RECURSIVE NamesAt(_, _)
\* The names of the resources at the positions S, in list order.
NamesAt(resources, S) ==
    IF S = {}
    THEN <<>>
    ELSE <<resources[First(S)].name>> \o NamesAt(resources, S \ {First(S)})

NotFoundError(name, rtype) ==
    [kind |-> "NotFound",
     text |-> <<"No ", rtype, " found with name \"", name, "\"">>,
     context |-> <<>>]

NotFoundByLabelError(label, app, rtype) ==
    [kind |-> "NotFoundByLabel",
     text |-> <<"No ", rtype, " found with label \"", label, "\" for app \"",
                app, "\"; use the name of the ", rtype>>,
     context |-> <<>>]

AmbiguousError(label, app, rtype, names) ==
    [kind |-> "Ambiguous",
     text |-> <<"More than one ", rtype, " has label \"", label, "\" for app \"",
                app, "\"; use the name of one of">> \o names,
     context |-> <<>>]

\* target.find_in(resources, resource_type).
FindIn(target, resources, rtype) ==
    LET m == Matching(target, resources)
    IN IF target.by = "name"
       THEN IF m = {}
            THEN Err(NotFoundError(target.name, rtype))
            ELSE Ok(resources[First(m)])
       ELSE IF m = {}
            THEN Err(NotFoundByLabelError(target.label, target.app, rtype))
            ELSE IF Cardinality(m) = 1
                 THEN Ok(resources[First(m)])
                 ELSE Err(AmbiguousError(target.label, target.app, rtype,
                                         NamesAt(resources, m)))

(***************************************************************************)
(* SetCommand::run.                                                        *)
(***************************************************************************)
\* Mutant of to_resource_links: the links of the stores are dropped.
to_resource_links_without_links(stores) ==
    [i \in 1..Len(stores) |-> ResourceLinksNew(stores[i].name, <<>>)]

\* fn to_resource_links(stores).
to_resource_links(stores) ==
    [i \in 1..Len(stores) |-> ResourceLinksNew(stores[i].name, stores[i].links)]

SetFetchContext == <<"Problem fetching key value stores">>

SetPairContext(key, value, name) ==
    <<"Error adding key value pair '", key, "=", value, "' to store '", name, "'">>

\* Mutant of ResolveStore: a target that does not resolve falls back to the
\* first store of the list.
ResolveStoreOrFirst(target, stores) ==
    LET found == FindIn(target, to_resource_links(stores), KeyValueStoreType)
    IN IF ~found.ok /\ stores # <<>>
       THEN Ok(to_resource_links(stores)[1])
       ELSE found

\* target.find_in(to_resource_links(stores), ResourceType::KeyValueStore).
ResolveStore(target, stores) ==
    FindIn(target, to_resource_links(stores), KeyValueStoreType)

\* Mutant of SetStart: the list is fetched before the target is constructed.
SetStartFetchFirst(p) ==
    /\ pc[p] = "start"
    /\ cmd[p].kind = "set"
    /\ LET target == FromInputs(cmd[p].store, cmd[p].label, cmd[p].app)
       IN \/ /\ Issue(p, GetStoresCall(FALSE))
             /\ Fail(p, WithContext(RemoteError, SetFetchContext))
             /\ UNCHANGED <<list, store>>
          \/ \E l \in StoreLists :
               /\ Issue(p, GetStoresCall(TRUE))
               /\ list' = [list EXCEPT ![p] = l]
               /\ IF ~target.ok
                  THEN /\ Fail(p, target.error)
                       /\ UNCHANGED store
                  ELSE LET found == ResolveStore(target.value, l)
                       IN IF ~found.ok
                          THEN /\ Fail(p, found.error)
                               /\ UNCHANGED store
                          ELSE /\ store' = [store EXCEPT ![p] = found.value.name]
                               /\ IF cmd[p].key_values = <<>>
                                  THEN Succeed(p)
                                  ELSE Goto(p, "set")
    /\ UNCHANGED <<cmd, prompts, out, rendered, next>>

\* From the start to the first pair: the construction of the target, the
\* fetch and the resolution of the target against what it returned.  The loop
\* over no pairs at all returns at once.
SetStart(p) ==
    /\ pc[p] = "start"
    /\ cmd[p].kind = "set"
    /\ LET target == FromInputs(cmd[p].store, cmd[p].label, cmd[p].app)
       IN IF ~target.ok
          THEN /\ Fail(p, target.error)
               /\ UNCHANGED <<list, calls, store>>
          ELSE \/ /\ Issue(p, GetStoresCall(FALSE))
                  /\ Fail(p, WithContext(RemoteError, SetFetchContext))
                  /\ UNCHANGED <<list, store>>
               \/ \E l \in StoreLists :
                    /\ Issue(p, GetStoresCall(TRUE))
                    /\ list' = [list EXCEPT ![p] = l]
                    /\ LET found == ResolveStore(target.value, l)
                       IN IF ~found.ok
                          THEN /\ Fail(p, found.error)
                               /\ UNCHANGED store
                          ELSE /\ store' = [store EXCEPT ![p] = found.value.name]
                               /\ IF cmd[p].key_values = <<>>
                                  THEN Succeed(p)
                                  ELSE Goto(p, "set")
    /\ UNCHANGED <<cmd, prompts, out, rendered, next>>

\* Mutant of AddPairCall: the key and the value are exchanged.
AddPairCallSwapped(name, pair, ok) ==
    Call("add_key_value_pair", None, <<name, pair[2], pair[1]>>, ok)

AddPairCall(name, pair, ok) ==
    Call("add_key_value_pair", None, <<name, pair[1], pair[2]>>, ok)

\* Mutant of SetPair: the failure of a call is dropped and the loop goes on.
SetPairIgnoresFailure(p) ==
    /\ pc[p] = "set"
    /\ LET pair == cmd[p].key_values[next[p]]
       IN \E ok \in BOOLEAN :
            /\ Issue(p, AddPairCall(store[p], pair, ok))
            /\ next' = [next EXCEPT ![p] = @ + 1]
            /\ IF next[p] = Len(cmd[p].key_values)
               THEN Succeed(p)
               ELSE Goto(p, "set")
    /\ UNCHANGED <<cmd, list, prompts, out, rendered, store>>

\* One turn of the loop: client.add_key_value_pair(None, store, key, value).
SetPair(p) ==
    /\ pc[p] = "set"
    /\ LET pair == cmd[p].key_values[next[p]]
       IN \E ok \in BOOLEAN :
            /\ Issue(p, AddPairCall(store[p], pair, ok))
            /\ IF ~ok
               THEN /\ Fail(p, WithContext(RemoteError,
                                           SetPairContext(pair[1], pair[2], store[p])))
                    /\ UNCHANGED next
               ELSE /\ next' = [next EXCEPT ![p] = @ + 1]
                    /\ IF next[p] = Len(cmd[p].key_values)
                       THEN Succeed(p)
                       ELSE Goto(p, "set")
    /\ UNCHANGED <<cmd, list, prompts, out, rendered, store>>

(***************************************************************************)
(* RenameCommand::run.                                                     *)
(***************************************************************************)
RenameListContext(name) == <<"Error listing key value stores '", name, "'">>

RenamedLine(name, new_name) ==
    <<"Key value store \"", name, "\" is now named \"", new_name, "\"">>

RenameFetch(p) ==
    /\ pc[p] = "start"
    /\ cmd[p].kind = "rename"
    /\ \/ /\ Issue(p, GetStoresCall(FALSE))
          /\ Fail(p, WithContext(RemoteError, RenameListContext(cmd[p].name)))
          /\ UNCHANGED list
       \/ \E l \in StoreLists :
            /\ Issue(p, GetStoresCall(TRUE))
            /\ list' = [list EXCEPT ![p] = l]
            /\ IF ~AnyNamed(l, cmd[p].name)
               THEN Fail(p, Msg(NotFoundText(cmd[p].name)))
               ELSE Goto(p, "rename")
    /\ UNCHANGED <<cmd, prompts, out, rendered, store, next>>

\* Mutant of RenameStoreCall: the two names are exchanged.
RenameStoreCallSwapped(name, new_name, ok) ==
    Call("rename_key_value_store", None, <<new_name, name>>, ok)

RenameStoreCall(name, new_name, ok) ==
    Call("rename_key_value_store", None, <<name, new_name>>, ok)

\* client.rename_key_value_store(&self.name, &self.new_name).await? and the
\* report; the failure is passed on as it is.
RenameCall(p) ==
    /\ pc[p] = "rename"
    /\ \E ok \in BOOLEAN :
         /\ Issue(p, RenameStoreCall(cmd[p].name, cmd[p].new_name, ok))
         /\ IF ok
            THEN /\ Println(p, RenamedLine(cmd[p].name, cmd[p].new_name))
                 /\ Succeed(p)
            ELSE /\ Fail(p, RemoteError)
                 /\ UNCHANGED out
    /\ UNCHANGED <<cmd, list, prompts, rendered, store, next>>

(***************************************************************************)
(* The remote service, as far as concurrent invocations need it: the       *)
(* stores it holds, whose names are unique, and the requests it has        *)
(* served, in the order it served them.                                    *)
(***************************************************************************)
NoRemote == [stores |-> <<>>, requests |-> <<>>]

Request(p, c) == [proc |-> p, op |-> c.op, args |-> c.args, ok |-> c.ok]

\* The store lists the remote service can hold: no name twice.
RemoteStores ==
    {l \in StoreLists :
        \A i, j \in 1..Len(l) : l[i].name = l[j].name => i = j}

\* The call invocation p has just issued.
LastCall(p) == calls'[p][Len(calls'[p])]

\* list_resources: the answer is the list of the stores held right now.
RemoteServesFetch(p) ==
    /\ LastCall(p).ok => list'[p] = remote.stores
    /\ remote' = [remote EXCEPT !.requests = Append(@, Request(p, LastCall(p)))]

\* create_resource: fails when a store of that name is held (the service
\* enforces the uniqueness of names), and may fail for any other reason;
\* when it answers Ok the store is held, without links.
RemoteServesCreate(p) ==
    /\ LastCall(p).ok => \A i \in 1..Len(remote.stores) :
                            remote.stores[i].name # LastCall(p).args[1]
    /\ remote' =
         [stores |-> IF LastCall(p).ok
                     THEN Append(remote.stores,
                                 [name |-> LastCall(p).args[1], links |-> <<>>])
                     ELSE remote.stores,
          requests |-> Append(remote.requests, Request(p, LastCall(p)))]

(***************************************************************************)
(* One invocation of the CLI: KeyValueCommand::run hands the parsed        *)
(* command to its run function.                                            *)
(***************************************************************************)
Init ==
    /\ cmd \in [Procs -> KeyValueCommand \cup {NoCommand}]
    /\ cmd[1] \in KeyValueCommand
    /\ \A p \in Procs \ {1} : cmd[p] = NoCommand
    /\ pc = [p \in Procs |-> IF p = 1 THEN "start" ELSE "idle"]
    /\ list = [p \in Procs |-> <<>>]
    /\ calls = [p \in Procs |-> <<>>]
    /\ prompts = [p \in Procs |-> <<>>]
    /\ out = [p \in Procs |-> <<>>]
    /\ rendered = [p \in Procs |-> <<>>]
    /\ store = [p \in Procs |-> ""]
    /\ next = [p \in Procs |-> 1]
    /\ status = [p \in Procs |-> IF p = 1 THEN "running" ELSE "idle"]
    /\ err = [p \in Procs |-> NoError]
    /\ remote = NoRemote

\* The client of a single invocation answers like the mock of the tests: it
\* keeps no state of the remote service.
Next ==
    \E p \in Procs :
        \/ CreateFetch(p) /\ UNCHANGED remote
        \/ CreateCall(p) /\ UNCHANGED remote
        \/ DeleteFetch(p) /\ UNCHANGED remote
        \/ DeletePrompt(p) /\ UNCHANGED remote
        \/ DeleteCall(p) /\ UNCHANGED remote
        \/ ListReject(p) /\ UNCHANGED remote
        \/ ListFetch(p) /\ UNCHANGED remote
        \/ SetStart(p) /\ UNCHANGED remote
        \/ SetPair(p) /\ UNCHANGED remote
        \/ RenameFetch(p) /\ UNCHANGED remote
        \/ RenameCall(p) /\ UNCHANGED remote

Spec == Init /\ [][Next]_vars

(***************************************************************************)
(* Two invocations of create at once, against one remote service.  They    *)
(* are not coordinated: each step of either is a request of its own.       *)
(***************************************************************************)
RaceInit ==
    /\ cmd \in [Procs -> CreateCommand]
    /\ pc = [p \in Procs |-> "start"]
    /\ list = [p \in Procs |-> <<>>]
    /\ calls = [p \in Procs |-> <<>>]
    /\ prompts = [p \in Procs |-> <<>>]
    /\ out = [p \in Procs |-> <<>>]
    /\ rendered = [p \in Procs |-> <<>>]
    /\ store = [p \in Procs |-> ""]
    /\ next = [p \in Procs |-> 1]
    /\ status = [p \in Procs |-> "running"]
    /\ err = [p \in Procs |-> NoError]
    /\ \E l \in RemoteStores : remote = [stores |-> l, requests |-> <<>>]

RaceFetch(p) == CreateFetch(p) /\ RemoteServesFetch(p)

RaceCreate(p) == CreateCall(p) /\ RemoteServesCreate(p)

RaceNext ==
    \E p \in Procs :
        \/ RaceFetch(p)
        \/ RaceCreate(p)

SpecRace == RaceInit /\ [][RaceNext]_vars

(***************************************************************************)
(* What the properties below speak of.                                     *)
(***************************************************************************)
Running(p, kind) == cmd[p].kind = kind

\* The fetch of the list has been issued and has answered Ok.
Fetched(p) ==
    /\ calls[p] # <<>>
    /\ calls[p][1] = [op |-> "get_key_value_stores", opt |-> <<>>,
                      args |-> <<>>, ok |-> TRUE]

ListHasName(l, name) == \E i \in DOMAIN l : l[i].name = name

\* The positions in the invocation's calls of the calls of method op.
CallsOf(p, op) == {i \in DOMAIN calls[p] : calls[p][i].op = op}

\* The calls that change the remote state.
MutatingOps ==
    {"create_key_value_store", "delete_key_value_store",
     "rename_key_value_store", "add_key_value_pair"}

NoMutation(p) ==
    \A i \in DOMAIN calls[p] : calls[p][i].op \notin MutatingOps

\* run returned the error that is exactly this message, with no context.
FailedWith(p, text) ==
    /\ pc[p] = "done"
    /\ status[p] = "err"
    /\ ErrToString(err[p]) = text
    /\ err[p].context = <<>>

(***************************************************************************)
(* C1.  Create of a name the fetched list holds fails with 'Key value      *)
(* store "<name>" already exists', and the invocation never issues a       *)
(* create_key_value_store call.                                            *)
(***************************************************************************)
C1_CreateDuplicateFails ==
    \A p \in Procs :
        (Running(p, "create") /\ Fetched(p) /\ ListHasName(list[p], cmd[p].name))
            => /\ FailedWith(p, <<"Key value store \"", cmd[p].name, "\" already exists">>)
               /\ CallsOf(p, "create_key_value_store") = {}
               /\ Len(calls[p]) = 1

\* create "kv1" when ["kv1", "kv2"] exist.
C1_Witness ==
    \E p \in Procs :
        /\ Running(p, "create")
        /\ cmd[p].name = "kv1"
        /\ Fetched(p)
        /\ Len(list[p]) = 2
        /\ list[p][1].name = "kv1"
        /\ list[p][2].name = "kv2"
        /\ status[p] = "err"

(***************************************************************************)
(* C2.  Create of a name the fetched list does not hold issues, after the  *)
(* fetch, exactly one create_key_value_store call, with exactly the name   *)
(* and no metadata; when the call succeeds run succeeds and has printed    *)
(* the created message.                                                    *)
(***************************************************************************)
C2_CreateAbsentCreates ==
    \A p \in Procs :
        (Running(p, "create") /\ Fetched(p) /\ ~ListHasName(list[p], cmd[p].name))
            => /\ pc[p] \in {"create", "done"}
               /\ pc[p] = "create" => Len(calls[p]) = 1 /\ status[p] = "running"
               /\ pc[p] = "done" =>
                    /\ Len(calls[p]) = 2
                    /\ calls[p][2].op = "create_key_value_store"
                    /\ calls[p][2].args = <<cmd[p].name>>
                    /\ calls[p][2].opt = <<>>
                    /\ calls[p][2].ok =>
                         /\ status[p] = "ok"
                         /\ out[p] = << <<"Key value store \"", cmd[p].name, "\" created">> >>
                    /\ ~calls[p][2].ok => status[p] = "err" /\ out[p] = <<>>

\* create "kv1" when ["kv2"] exists, the create call answering Ok.
C2_Witness ==
    \E p \in Procs :
        /\ Running(p, "create")
        /\ cmd[p].name = "kv1"
        /\ Fetched(p)
        /\ Len(list[p]) = 1
        /\ list[p][1].name = "kv2"
        /\ Len(calls[p]) = 2
        /\ calls[p][2].ok
        /\ status[p] = "ok"

(***************************************************************************)
(* C3.  Delete of a name the fetched list does not hold, with or without   *)
(* the yes flag, fails with 'No key value store found with name "<name>"': *)
(* the prompt is never presented and no delete call is issued.             *)
(***************************************************************************)
C3_DeleteNotFoundFails ==
    \A p \in Procs :
        (Running(p, "delete") /\ Fetched(p) /\ ~ListHasName(list[p], cmd[p].name))
            => /\ FailedWith(p, <<"No key value store found with name \"", cmd[p].name, "\"">>)
               /\ prompts[p] = <<>>
               /\ CallsOf(p, "delete_key_value_store") = {}
               /\ Len(calls[p]) = 1

\* delete "kv1" with --yes when the list is empty.
C3_Witness ==
    \E p \in Procs :
        /\ Running(p, "delete")
        /\ cmd[p].name = "kv1"
        /\ cmd[p].yes
        /\ Fetched(p)
        /\ list[p] = <<>>
        /\ status[p] = "err"

\* The same without the yes flag, and with other stores in the list.
C3_WitnessNoYes ==
    \E p \in Procs :
        /\ Running(p, "delete")
        /\ ~cmd[p].yes
        /\ Fetched(p)
        /\ list[p] # <<>>
        /\ ~ListHasName(list[p], cmd[p].name)
        /\ status[p] = "err"

Declined(p) ==
    /\ prompts[p] # <<>>
    /\ prompts[p][Len(prompts[p])].answer = "no"

(***************************************************************************)
(* C4.  Delete of an existing store, without the yes flag, whose prompt is *)
(* declined: no delete call (no mutating call at all) is issued and run    *)
(* returns Ok, not an error.                                               *)
(***************************************************************************)
C4_DeleteDeclinedNoMutation ==
    \A p \in Procs :
        (/\ Running(p, "delete")
         /\ Fetched(p)
         /\ ListHasName(list[p], cmd[p].name)
         /\ ~cmd[p].yes
         /\ Declined(p))
            => /\ pc[p] = "done"
               /\ status[p] = "ok"
               /\ err[p].kind = "none"
               /\ NoMutation(p)
               /\ Len(calls[p]) = 1
               /\ Len(prompts[p]) = 1

C4_Witness ==
    \E p \in Procs :
        /\ Running(p, "delete")
        /\ Fetched(p)
        /\ ListHasName(list[p], cmd[p].name)
        /\ ~cmd[p].yes
        /\ Declined(p)
        /\ status[p] = "ok"

Affirmed(p) ==
    /\ prompts[p] # <<>>
    /\ prompts[p][Len(prompts[p])].answer = "yes"

(***************************************************************************)
(* C5.  Delete of an existing store that is confirmed (the prompt returns  *)
(* true) or bypassed (the yes flag): exactly one delete_key_value_store    *)
(* call is issued, for exactly the requested name; with the yes flag the   *)
(* prompt is never presented; and no delete call is issued unless the yes  *)
(* flag is set or the prompt returned true.                                *)
(***************************************************************************)
C5_DeleteConfirmedOrBypassed ==
    \A p \in Procs :
        Running(p, "delete") =>
            /\ cmd[p].yes => prompts[p] = <<>>
            /\ CallsOf(p, "delete_key_value_store") # {} =>
                 /\ cmd[p].yes \/ Affirmed(p)
                 /\ Fetched(p)
                 /\ ListHasName(list[p], cmd[p].name)
            /\ (Fetched(p) /\ ListHasName(list[p], cmd[p].name)
                    /\ (cmd[p].yes \/ Affirmed(p))) =>
                 /\ pc[p] \in {"delete", "done"}
                 /\ Len(prompts[p]) = (IF cmd[p].yes THEN 0 ELSE 1)
                 /\ pc[p] = "delete" => Len(calls[p]) = 1
                 /\ pc[p] = "done" =>
                      /\ Len(calls[p]) = 2
                      /\ calls[p][2].op = "delete_key_value_store"
                      /\ calls[p][2].args = <<cmd[p].name>>
                      /\ calls[p][2].ok =>
                           /\ status[p] = "ok"
                           /\ out[p] = << <<"Key value store \"", cmd[p].name, "\" deleted">> >>

\* delete "kv1" with --yes when ["kv1"] exists: the call is issued.
C5_Witness ==
    \E p \in Procs :
        /\ Running(p, "delete")
        /\ cmd[p].name = "kv1"
        /\ cmd[p].yes
        /\ Fetched(p)
        /\ Len(list[p]) = 1
        /\ list[p][1].name = "kv1"
        /\ CallsOf(p, "delete_key_value_store") = {2}
        /\ status[p] = "ok"

\* The same, confirmed at the prompt.
C5_WitnessAffirmed ==
    \E p \in Procs :
        /\ Running(p, "delete")
        /\ ~cmd[p].yes
        /\ Affirmed(p)
        /\ CallsOf(p, "delete_key_value_store") = {2}
        /\ status[p] = "ok"

(***************************************************************************)
(* C6.  List with the Json format and any group-by strategy fails with the *)
(* error that grouping is not supported with JSON output, and no remote    *)
(* client call at all, not even the fetch of the list, is made.            *)
(***************************************************************************)
C6_ListJsonGroupingRejected ==
    \A p \in Procs :
        (Running(p, "list") /\ cmd[p].format = "Json" /\ cmd[p].group_by # <<>>)
            => /\ calls[p] = <<>>
               /\ rendered[p] = <<>>
               /\ out[p] = <<>>
               /\ pc[p] \in {"start", "done"}
               /\ pc[p] = "done" =>
                    FailedWith(p, <<"Grouping is not supported with JSON format output">>)

C6_Witness ==
    \E p \in Procs :
        /\ Running(p, "list")
        /\ cmd[p].format = "Json"
        /\ cmd[p].group_by = <<"Store">>
        /\ status[p] = "err"
        /\ calls[p] = <<>>

\* The positions of the stores that have a link of that label for that app.
LabelMatches(l, label, app) ==
    {i \in DOMAIN l :
        \E k \in DOMAIN l[i].links :
            l[i].links[k].app_name = app /\ l[i].links[k].label = label}

SetByName(p) ==
    /\ Running(p, "set")
    /\ cmd[p].store # <<>> /\ cmd[p].label = <<>> /\ cmd[p].app = <<>>
    /\ cmd[p].store[1] # ""

SetByLabel(p) ==
    /\ Running(p, "set")
    /\ cmd[p].store = <<>> /\ cmd[p].label # <<>> /\ cmd[p].app # <<>>
    /\ cmd[p].label[1] # "" /\ cmd[p].app[1] # ""

\* The target of the set command selects exactly the store named name.
ResolvesTo(p, name) ==
    \/ /\ SetByName(p)
       /\ name = cmd[p].store[1]
       /\ ListHasName(list[p], name)
    \/ /\ SetByLabel(p)
       /\ \E i \in DOMAIN list[p] :
            /\ LabelMatches(list[p], cmd[p].label[1], cmd[p].app[1]) = {i}
            /\ name = list[p][i].name

AllOk(p) == \A i \in DOMAIN calls[p] : calls[p][i].ok

(***************************************************************************)
(* C7.  Set whose target resolves and whose calls all succeed issues one   *)
(* add_key_value_pair call for each of the N supplied pairs (none when     *)
(* N = 0), the i-th carrying the i-th (key, value), in the order supplied, *)
(* and every one carrying the resolved store's name.                       *)
(***************************************************************************)
C7_SetIssuesPairsInOrder ==
    \A p \in Procs :
        (Running(p, "set") /\ Fetched(p)) =>
            LET kv == cmd[p].key_values
            IN /\ \A i \in 2..Len(calls[p]) :
                    /\ i - 1 <= Len(kv)
                    /\ ResolvesTo(p, calls[p][i].args[1])
                    /\ calls[p][i].op = "add_key_value_pair"
                    /\ calls[p][i].opt = <<>>
                    /\ calls[p][i].args = <<store[p], kv[i - 1][1], kv[i - 1][2]>>
               /\ ((\E name \in Names : ResolvesTo(p, name)) /\ AllOk(p)) =>
                    \/ pc[p] = "set" /\ Len(calls[p]) - 1 < Len(kv)
                    \/ /\ pc[p] = "done"
                       /\ status[p] = "ok"
                       /\ Len(calls[p]) - 1 = Len(kv)

\* --store kv1 key=value when kv1 exists: one call, ("kv1", "key", "value").
C7_Witness ==
    \E p \in Procs :
        /\ SetByName(p)
        /\ cmd[p].store = <<"kv1">>
        /\ cmd[p].key_values = << <<"key", "value">> >>
        /\ status[p] = "ok"
        /\ Len(calls[p]) = 2
        /\ calls[p][2].op = "add_key_value_pair"
        /\ calls[p][2].args = <<"kv1", "key", "value">>

\* Two pairs, addressed by label, and no pair at all.
C7_WitnessByLabel ==
    \E p \in Procs :
        /\ SetByLabel(p)
        /\ cmd[p].key_values = << <<"k2", "v2">>, <<"key", "value">> >>
        /\ status[p] = "ok"
        /\ Len(calls[p]) = 3

C7_WitnessNoPair ==
    \E p \in Procs :
        /\ SetByName(p)
        /\ cmd[p].key_values = <<>>
        /\ status[p] = "ok"
        /\ Len(calls[p]) = 1

FailedPairs(p) ==
    {j \in DOMAIN calls[p] :
        calls[p][j].op = "add_key_value_pair" /\ ~calls[p][j].ok}

(***************************************************************************)
(* C8.  Set whose call for pair i fails: the calls for the pairs before i  *)
(* were issued and succeeded and are not undone by any other call, no call *)
(* is issued for a pair after i, pair i is not tried again, and run fails  *)
(* with that failure.                                                      *)
(***************************************************************************)
C8_SetFailureAborts ==
    \A p \in Procs :
        Running(p, "set") =>
            \A j \in FailedPairs(p) :
                LET kv == cmd[p].key_values
                    i == j - 1
                IN /\ j = Len(calls[p])
                   /\ i \in 1..Len(kv)
                   /\ calls[p][1].op = "get_key_value_stores"
                   /\ \A k \in 1..(i - 1) :
                        /\ calls[p][k + 1].op = "add_key_value_pair"
                        /\ calls[p][k + 1].args = <<store[p], kv[k][1], kv[k][2]>>
                        /\ calls[p][k + 1].ok
                   /\ calls[p][j].args = <<store[p], kv[i][1], kv[i][2]>>
                   /\ pc[p] = "done"
                   /\ status[p] = "err"
                   /\ err[p].kind = "remote"
                   /\ err[p].context =
                        << <<"Error adding key value pair '", kv[i][1], "=", kv[i][2],
                             "' to store '", store[p], "'">> >>

\* The second of two pairs fails after the first succeeded.
C8_Witness ==
    \E p \in Procs :
        /\ Running(p, "set")
        /\ Len(cmd[p].key_values) = 2
        /\ FailedPairs(p) = {3}
        /\ calls[p][2].ok
        /\ status[p] = "err"

\* The first of two pairs fails: the second is never sent.
C8_WitnessFirst ==
    \E p \in Procs :
        /\ Running(p, "set")
        /\ Len(cmd[p].key_values) = 2
        /\ FailedPairs(p) = {2}
        /\ pc[p] = "done"

(***************************************************************************)
(* C9.  Set addressed by label l and app a, against the fetched list:      *)
(* it fails Ambiguous iff more than one store has a link with app_name = a *)
(* and label = l, NotFoundByLabel iff none has, and otherwise resolves to  *)
(* exactly the one store that has; several matches are never resolved to   *)
(* the first of them.                                                      *)
(***************************************************************************)
C9_LabelResolution ==
    \A p \in Procs :
        (SetByLabel(p) /\ Fetched(p)) =>
            LET m == LabelMatches(list[p], cmd[p].label[1], cmd[p].app[1])
            IN /\ (status[p] = "err" /\ err[p].kind = "Ambiguous")
                    <=> Cardinality(m) > 1
               /\ (status[p] = "err" /\ err[p].kind = "NotFoundByLabel")
                    <=> m = {}
               /\ Cardinality(m) = 1 =>
                    \A i \in m :
                        /\ store[p] = list[p][i].name
                        /\ \A j \in 2..Len(calls[p]) :
                               calls[p][j].args[1] = list[p][i].name
               /\ Cardinality(m) # 1 => Len(calls[p]) = 1 /\ pc[p] = "done"

\* Two stores carry the label for the app: Ambiguous, and nothing is set.
C9_Witness ==
    \E p \in Procs :
        /\ SetByLabel(p)
        /\ Fetched(p)
        /\ Cardinality(LabelMatches(list[p], cmd[p].label[1], cmd[p].app[1])) = 2
        /\ list[p][1].name # list[p][2].name
        /\ cmd[p].key_values # <<>>
        /\ status[p] = "err"
        /\ err[p].kind = "Ambiguous"

\* The one match is the second store of the list, and the pairs go to it.
C9_WitnessUnique ==
    \E p \in Procs :
        /\ SetByLabel(p)
        /\ Fetched(p)
        /\ LabelMatches(list[p], cmd[p].label[1], cmd[p].app[1]) = {2}
        /\ list[p][1].links # <<>>
        /\ list[p][1].name # list[p][2].name
        /\ Len(calls[p]) = 2
        /\ calls[p][2].args[1] = list[p][2].name

C9_WitnessNone ==
    \E p \in Procs :
        /\ SetByLabel(p)
        /\ Fetched(p)
        /\ list[p] # <<>>
        /\ status[p] = "err"
        /\ err[p].kind = "NotFoundByLabel"

\* The kind of failure the resolution of the target must end in, "" if none.
ResolutionFailure(p) ==
    IF SetByName(p)
    THEN IF ListHasName(list[p], cmd[p].store[1]) THEN "" ELSE "NotFound"
    ELSE LET n == Cardinality(LabelMatches(list[p], cmd[p].label[1], cmd[p].app[1]))
         IN IF n = 0 THEN "NotFoundByLabel" ELSE IF n = 1 THEN "" ELSE "Ambiguous"

(***************************************************************************)
(* C10.  Set whose target does not resolve against the fetched list        *)
(* (NotFound for a name; NotFoundByLabel or Ambiguous for a label and app) *)
(* fails with that error as it is and issues no add_key_value_pair call,   *)
(* however many pairs were supplied.                                       *)
(***************************************************************************)
C10_SetResolutionFailureAborts ==
    \A p \in Procs :
        ((SetByName(p) \/ SetByLabel(p)) /\ Fetched(p)) =>
            /\ ResolutionFailure(p) # "" =>
                 /\ pc[p] = "done"
                 /\ status[p] = "err"
                 /\ err[p].kind = ResolutionFailure(p)
                 /\ err[p].context = <<>>
                 /\ Len(calls[p]) = 1
                 /\ CallsOf(p, "add_key_value_pair") = {}
            /\ err[p].kind \in {"NotFound", "NotFoundByLabel", "Ambiguous"} =>
                 /\ err[p].kind = ResolutionFailure(p)
                 /\ CallsOf(p, "add_key_value_pair") = {}

\* --store kv1 with two pairs when the list holds only another store.
C10_Witness ==
    \E p \in Procs :
        /\ SetByName(p)
        /\ Fetched(p)
        /\ list[p] # <<>>
        /\ Len(cmd[p].key_values) = 2
        /\ status[p] = "err"
        /\ err[p].kind = "NotFound"

C10_WitnessAmbiguous ==
    \E p \in Procs :
        /\ SetByLabel(p)
        /\ Fetched(p)
        /\ Len(cmd[p].key_values) = 2
        /\ status[p] = "err"
        /\ err[p].kind = "Ambiguous"
        /\ Len(calls[p]) = 1

\* The (store, label, app) of the set command is neither a name alone nor a
\* label with its app, or holds an empty string.
SetMalformed(p) ==
    /\ Running(p, "set")
    /\ ~SetByName(p)
    /\ ~SetByLabel(p)

(***************************************************************************)
(* C11.  Set with a malformed (store, label, app) combination (neither or  *)
(* both forms, a label without app, an app without label, or an empty      *)
(* string) fails with a configuration error, and no remote client call,    *)
(* the fetch of the list included, is made.                                *)
(***************************************************************************)
C11_SetMalformedRejected ==
    \A p \in Procs :
        SetMalformed(p) =>
            /\ calls[p] = <<>>
            /\ pc[p] \in {"start", "done"}
            /\ pc[p] = "done" =>
                 /\ status[p] = "err"
                 /\ err[p].kind = "ConfigurationError"
                 /\ err[p].context = <<>>

\* An empty store name.
C11_Witness ==
    \E p \in Procs :
        /\ Running(p, "set")
        /\ cmd[p].store = <<"">>
        /\ cmd[p].label = <<>>
        /\ cmd[p].app = <<>>
        /\ cmd[p].key_values # <<>>
        /\ status[p] = "err"

\* A label without its app, and both forms at once.
C11_WitnessLabelOnly ==
    \E p \in Procs :
        /\ Running(p, "set")
        /\ cmd[p].store = <<>>
        /\ cmd[p].label = <<"l1">>
        /\ cmd[p].app = <<>>
        /\ status[p] = "err"

C11_WitnessBoth ==
    \E p \in Procs :
        /\ Running(p, "set")
        /\ cmd[p].store = <<"kv1">>
        /\ cmd[p].label = <<"l1">>
        /\ cmd[p].app = <<"app1">>
        /\ status[p] = "err"

(***************************************************************************)
(* C12.  Rename issues a rename_key_value_store call iff the fetched list  *)
(* holds an item of the current name: without one it fails with 'No key    *)
(* value store found with name "<name>"' and issues none; with one it      *)
(* issues exactly one, with exactly (name, new_name), and when that call   *)
(* succeeds it reports the old and the new name.                           *)
(***************************************************************************)
C12_RenameIffPresent ==
    \A p \in Procs :
        Running(p, "rename") =>
            /\ CallsOf(p, "rename_key_value_store") # {} =>
                 Fetched(p) /\ ListHasName(list[p], cmd[p].name)
            /\ (Fetched(p) /\ ~ListHasName(list[p], cmd[p].name)) =>
                 /\ FailedWith(p, <<"No key value store found with name \"", cmd[p].name, "\"">>)
                 /\ Len(calls[p]) = 1
            /\ (Fetched(p) /\ ListHasName(list[p], cmd[p].name)) =>
                 /\ pc[p] \in {"rename", "done"}
                 /\ pc[p] = "rename" => Len(calls[p]) = 1 /\ status[p] = "running"
                 /\ pc[p] = "done" =>
                      /\ Len(calls[p]) = 2
                      /\ calls[p][2].op = "rename_key_value_store"
                      /\ calls[p][2].args = <<cmd[p].name, cmd[p].new_name>>
                      /\ calls[p][2].ok =>
                           /\ status[p] = "ok"
                           /\ out[p] = << <<"Key value store \"", cmd[p].name,
                                            "\" is now named \"", cmd[p].new_name, "\"">> >>
                      /\ ~calls[p][2].ok => status[p] = "err" /\ out[p] = <<>>

\* rename "kv1" to "kv2" when "kv1" exists, the call answering Ok.
C12_Witness ==
    \E p \in Procs :
        /\ Running(p, "rename")
        /\ cmd[p].name = "kv1"
        /\ cmd[p].new_name = "kv2"
        /\ Fetched(p)
        /\ ListHasName(list[p], "kv1")
        /\ CallsOf(p, "rename_key_value_store") = {2}
        /\ status[p] = "ok"

\* The current name is absent from a list that holds the new name.
C12_WitnessAbsent ==
    \E p \in Procs :
        /\ Running(p, "rename")
        /\ cmd[p].name # cmd[p].new_name
        /\ Fetched(p)
        /\ ListHasName(list[p], cmd[p].new_name)
        /\ ~ListHasName(list[p], cmd[p].name)
        /\ status[p] = "err"

\* The positions, among the requests the remote service served, of the
\* requests op of invocation p.
RequestsOf(p, op) ==
    {k \in DOMAIN remote.requests :
        remote.requests[k].proc = p /\ remote.requests[k].op = op}

IssuedCreate(p) == CallsOf(p, "create_key_value_store") # {}

(***************************************************************************)
(* C13.  Create is not atomic across concurrent invocations.  The check is *)
(* made on the invocation's own snapshot only: an invocation whose         *)
(* snapshot lacks the name issues its create call whatever the remote      *)
(* service holds by then, so two invocations for one name that both fetch  *)
(* before either creates both issue a create call; and when a create of    *)
(* the name has succeeded, another create call for that name comes only    *)
(* from an invocation that had fetched before it.                          *)
(***************************************************************************)
C13_CreateCheckIsAdvisory ==
    \A p \in Procs :
        /\ IssuedCreate(p) =>
             /\ Fetched(p)
             /\ ~ListHasName(list[p], cmd[p].name)
             /\ Cardinality(CallsOf(p, "create_key_value_store")) = 1
        /\ (Fetched(p) /\ ~ListHasName(list[p], cmd[p].name)) =>
             /\ pc[p] \in {"create", "done"}
             /\ pc[p] = "done" => IssuedCreate(p)
        /\ \A q \in Procs \ {p} :
             (/\ cmd[q].name = cmd[p].name
              /\ IssuedCreate(p)
              /\ IssuedCreate(q)
              /\ calls[p][2].ok)
                 => \E k \in RequestsOf(q, "get_key_value_stores") :
                        \E m \in RequestsOf(p, "create_key_value_store") : k < m

\* Both invocations fetch a list without the name before either creates, and
\* both then issue their create call for it.
C13_Witness ==
    /\ cmd[1].name = cmd[2].name
    /\ Len(remote.requests) = 4
    /\ remote.requests[1].op = "get_key_value_stores"
    /\ remote.requests[2].op = "get_key_value_stores"
    /\ remote.requests[1].proc # remote.requests[2].proc
    /\ remote.requests[3].op = "create_key_value_store"
    /\ remote.requests[4].op = "create_key_value_store"
    /\ remote.requests[3].proc # remote.requests[4].proc
    /\ \A p \in Procs :
         /\ Fetched(p)
         /\ ~ListHasName(list[p], cmd[p].name)
         /\ IssuedCreate(p)
         /\ calls[p][2].args = <<cmd[1].name>>

\* What the check does not give: at most one create call for one name.
C13_AtMostOneCreatePerName ==
    \A p, q \in Procs :
        (p # q /\ cmd[p].name = cmd[q].name) => ~(IssuedCreate(p) /\ IssuedCreate(q))

\* What an invocation has reported: the lines it printed itself and, for
\* list, the one result the renderer it called prints.
Reported(p) == Len(out[p]) + Len(rendered[p])

(***************************************************************************)
(* C14.  Every invocation of create, delete, list, set or rename that      *)
(* returns success has printed exactly one confirmation or result message  *)
(* (a successful set and a successful rename among them).                  *)
(***************************************************************************)
C14_SuccessReportsOneLine ==
    \A p \in Procs :
        (cmd[p].kind \in {"create", "delete", "list", "set", "rename"}
            /\ status[p] = "ok")
            => Reported(p) = 1

(***************************************************************************)
(* C15.  The failure of a remote call (the fetch of the list, create,      *)
(* delete, rename, the set of a pair) is wrapped in a context naming the   *)
(* operation before run returns it: none is returned bare.                 *)
(***************************************************************************)
C15_RemoteErrorsCarryContext ==
    \A p \in Procs :
        (status[p] = "err" /\ err[p].kind = "remote") => err[p].context # <<>>

\* The remote calls other than rename_key_value_store do carry a context.
C15_AllButRenameCarryContext ==
    \A p \in Procs :
        (/\ status[p] = "err"
         /\ err[p].kind = "remote"
         /\ calls[p][Len(calls[p])].op # "rename_key_value_store")
            => Len(err[p].context) = 1

ListValid(p) ==
    /\ Running(p, "list")
    /\ ~(cmd[p].format = "Json" /\ cmd[p].group_by # <<>>)

(***************************************************************************)
(* C16.  List whose fetched list is empty (the format and group-by being   *)
(* compatible) prints the single line 'No key value stores found', renders *)
(* no table and returns success, not an error.                             *)
(***************************************************************************)
C16_ListEmptyReported ==
    \A p \in Procs :
        (ListValid(p) /\ Fetched(p) /\ list[p] = <<>>)
            => /\ pc[p] = "done"
               /\ status[p] = "ok"
               /\ err[p].kind = "none"
               /\ out[p] = << <<"No key value stores found">> >>
               /\ rendered[p] = <<>>

C16_Witness ==
    \E p \in Procs :
        /\ ListValid(p)
        /\ cmd[p].format = "Table"
        /\ cmd[p].group_by = <<"App">>
        /\ Fetched(p)
        /\ list[p] = <<>>
        /\ status[p] = "ok"

\* The flat list of (name, links), one per fetched store, in fetched order.
FlatResources(l) ==
    [i \in DOMAIN l |-> [name |-> l[i].name, links |-> l[i].links]]

JsonUngrouped(p) ==
    /\ Running(p, "list")
    /\ cmd[p].format = "Json"
    /\ cmd[p].group_by = <<>>

(***************************************************************************)
(* C17.  List with the Json format and no group-by hands, for every        *)
(* fetched list, the empty one included, the flat ungrouped list of        *)
(* resources to the JSON renderer, with the app filter, one {name, links}  *)
(* per store in fetched order.                                             *)
(***************************************************************************)
C17_JsonRendersFlatList ==
    \A p \in Procs :
        (JsonUngrouped(p) /\ Fetched(p)) =>
            /\ Len(rendered[p]) = 1
            /\ rendered[p][1].renderer = "print_json"
            /\ rendered[p][1].resource_links = FlatResources(list[p])
            /\ rendered[p][1].app = cmd[p].app
            /\ out[p] = <<>>

\* The same for the fetched lists that are not empty.
C17_JsonRendersNonEmptyList ==
    \A p \in Procs :
        (JsonUngrouped(p) /\ Fetched(p) /\ list[p] # <<>>) =>
            /\ Len(rendered[p]) = 1
            /\ rendered[p][1].renderer = "print_json"
            /\ rendered[p][1].resource_links = FlatResources(list[p])
            /\ rendered[p][1].app = cmd[p].app
            /\ out[p] = <<>>

(***************************************************************************)
(* C18.  List with --store S passes on for rendering only the store named  *)
(* S: no store of another name is listed.                                  *)
(***************************************************************************)
C18_ListStoreFilter ==
    \A p \in Procs :
        (Running(p, "list") /\ cmd[p].store # <<>>) =>
            \A r \in DOMAIN rendered[p] :
                \A i \in DOMAIN rendered[p][r].resource_links :
                    rendered[p][r].resource_links[i].name = cmd[p].store[1]

\* The calls of the invocation that answered Err.
FailedCalls(p) == {i \in DOMAIN calls[p] : ~calls[p][i].ok}

(***************************************************************************)
(* C19.  Errors are terminal and never retried: a remote call that answers *)
(* Err is the last call of its invocation, which has failed; and once an   *)
(* invocation has failed, on a remote call or on a local check, it issues  *)
(* no further call of any kind and stays failed.                           *)
(***************************************************************************)
C19_ErrorsAreTerminal ==
    /\ [](\A p \in Procs :
            /\ \A i \in FailedCalls(p) :
                 /\ i = Len(calls[p])
                 /\ status[p] = "err"
                 /\ err[p].kind = "remote"
            /\ status[p] = "err" => pc[p] = "done" /\ err[p].kind # "none")
    /\ [][\A p \in Procs :
            status[p] = "err" =>
                /\ calls'[p] = calls[p]
                /\ prompts'[p] = prompts[p]
                /\ status'[p] = "err"
                /\ err'[p] = err[p]]_vars

\* A delete call that answers Err after the prompt was affirmed.
C19_Witness ==
    \E p \in Procs :
        /\ Running(p, "delete")
        /\ prompts[p] # <<>>
        /\ FailedCalls(p) = {2}
        /\ status[p] = "err"

\* A local check that fails: the store to rename is not in the list.
C19_WitnessLocal ==
    \E p \in Procs :
        /\ Running(p, "rename")
        /\ Fetched(p)
        /\ FailedCalls(p) = {}
        /\ status[p] = "err"

Mutates(p) == cmd[p].kind \in {"create", "delete", "rename", "set"}

Fetches(p) == CallsOf(p, "get_key_value_stores")

\* Every mutating call comes after the one fetch, which answered Ok, and is
\* what the fetched list calls for.
MutationsFollowSnapshot(p) ==
    /\ Cardinality(Fetches(p)) <= 1
    /\ calls[p] # <<>> => calls[p][1].op = "get_key_value_stores"
    /\ \A i \in DOMAIN calls[p] :
         calls[p][i].op \in MutatingOps =>
            /\ i > 1
            /\ Fetched(p)
            /\ CASE calls[p][i].op = "create_key_value_store" ->
                      ~ListHasName(list[p], cmd[p].name)
                 [] calls[p][i].op = "add_key_value_pair" ->
                      ResolvesTo(p, calls[p][i].args[1])
                 [] OTHER -> ListHasName(list[p], cmd[p].name)
    /\ (calls[p] # <<>> /\ ~calls[p][1].ok) => Len(calls[p]) = 1

(***************************************************************************)
(* C20, as claimed.  Every invocation of create, delete, rename and set    *)
(* calls get_key_value_stores exactly once; every mutating call comes      *)
(* strictly after that fetch answered Ok and is decided from that one      *)
(* snapshot; a failed fetch is followed by no mutating call.               *)
(***************************************************************************)
C20_FetchExactlyOnce ==
    \A p \in Procs :
        Mutates(p) =>
            /\ MutationsFollowSnapshot(p)
            /\ pc[p] = "done" => Cardinality(Fetches(p)) = 1

(***************************************************************************)
(* C20, amended.  Every invocation of create, delete, rename and set calls *)
(* get_key_value_stores at most once, as its first remote call, and        *)
(* exactly once unless the target of set cannot be constructed, when no    *)
(* remote call is made at all; every mutating call comes strictly after    *)
(* that fetch answered Ok and is decided from that one snapshot; a failed  *)
(* fetch is followed by no mutating call.                                  *)
(***************************************************************************)
C20_FetchPrecedesMutation ==
    \A p \in Procs :
        Mutates(p) =>
            /\ MutationsFollowSnapshot(p)
            /\ pc[p] = "done" =>
                 IF SetMalformed(p)
                 THEN calls[p] = <<>>
                 ELSE Cardinality(Fetches(p)) = 1

\* Two pairs are set, by label, after the one fetch.
C20_Witness ==
    \E p \in Procs :
        /\ SetByLabel(p)
        /\ Fetches(p) = {1}
        /\ CallsOf(p, "add_key_value_pair") = {2, 3}
        /\ pc[p] = "done"

\* A set that ends without any fetch.
C20_WitnessNoFetch ==
    \E p \in Procs :
        /\ Running(p, "set")
        /\ pc[p] = "done"
        /\ Fetches(p) = {}

====
